---- MODULE Spec2Model ----
(***************************************************************************)
(* The task-oriented dialog engine of src/prompt/ai-customer-service/      *)
(* advisor.py: NLU (extraction adapter), DST (dialog state tracker),       *)
(* MockedDB (catalog and retrieval) and DialogManager (one turn = run).    *)
(*                                                                         *)
(* Python values are tagged records, so that values of different Python    *)
(* types can be compared:                                                  *)
(*   Str(s)   a str          Num(n)  an int          None   None           *)
(*   a dict   [t |-> "dict", f |-> function from its string keys]          *)
(* A dict that keeps insertion order and is iterated (the dialog state,    *)
(* the diff, **kwargs) is a sequence of [k, v] items with unique keys.     *)
(*                                                                         *)
(* TLA+ string literals are ASCII; the Chinese literals of the source are  *)
(* written as:  economy = 经济套餐, travel = 畅游套餐,                     *)
(* unlimited = 无限套餐, campus = 校园套餐, student = 在校生,              *)
(* nolimit = 无上限.                                                       *)
(*                                                                         *)
(* The audit job of src/prompt/ai-audit-comments/app.py, auto_audit, is    *)
(* modelled beside it: its invocations are threads of one process that     *)
(* share _task_running, _task_lock, _last_execution_time and the comments. *)
(***************************************************************************)
EXTENDS Integers, Sequences, FiniteSets, TLC

VARIABLES state, session, db, turn, last

\* the audit job: the globals of app.py, the clock, the status of each
\* comment, and for each invocation of auto_audit where it is (pc), the time
\* it read, the comments it still has to audit, whether it read or wrote a
\* comment, and how it ended
VARIABLES task_running, task_lock, last_execution_time, now, comments,
          pc, current_time, todo, touched, ended

dialogVars == <<state, session, db, turn, last>>

auditVars == <<task_running, task_lock, last_execution_time, now, comments,
               pc, current_time, todo, touched, ended>>

vars == <<state, session, db, turn, last, task_running, task_lock, last_execution_time,
          now, comments, pc, current_time, todo, touched, ended>>

(* ------------------------------ values -------------------------------- *)

Str(s) == [t |-> "str", s |-> s]

Num(n) == [t |-> "int", n |-> n]

None == [t |-> "none"]

IsDict(v) == v.t = "dict"

\* value.get(key): None when the key is absent
DictGet(v, key) == IF key \in DOMAIN v.f THEN v.f[key] ELSE None

\* {"operator": op, "value": val}
Cmp(op, val) == [t |-> "dict", f |-> [operator |-> Str(op), value |-> val]]

\* {"ordering": ord, "value": attr}
SortDir(attr, ord) == [t |-> "dict", f |-> [ordering |-> Str(ord), value |-> Str(attr)]]

\* Python truthiness of a value (None, 0, "" and {} are falsy)
Truthy(v) ==
    CASE v.t = "none" -> FALSE
      [] v.t = "int" -> v.n # 0
      [] v.t = "str" -> v.s # ""
      [] OTHER -> DOMAIN v.f # {}

Digit(d) ==
    CASE d = 0 -> "0" [] d = 1 -> "1" [] d = 2 -> "2" [] d = 3 -> "3"
      [] d = 4 -> "4" [] d = 5 -> "5" [] d = 6 -> "6" [] d = 7 -> "7"
      [] d = 8 -> "8" [] OTHER -> "9"

RECURSIVE IntToStr(_)
\* str(n) of a non-negative int: its decimal digits
IntToStr(n) == IF n < 10 THEN Digit(n) ELSE IntToStr(n \div 10) \o Digit(n % 10)

\* str(v): the text of a str is itself, of an int its digits; the text of a
\* dict starts with "{" and equals no text of a str, an int or None
PyStr(v) ==
    CASE v.t = "str" -> v.s
      [] v.t = "int" -> IntToStr(v.n)
      [] v.t = "none" -> "None"
      [] OTHER -> "{dict}"

(* --------------------------- ordered dicts ---------------------------- *)

Keys(d) == {d[i].k : i \in DOMAIN d}

\* key in d
Has(d, key) == key \in Keys(d)

\* d[key], for a key of d
Get(d, key) == d[CHOOSE i \in DOMAIN d : d[i].k = key].v

\* del d[key]
Del(d, key) == SelectSeq(d, LAMBDA it : it.k # key)

\* an assignment that keeps the value of a key already present (setdefault)
Put_keepExisting(d, key, v) ==
    IF Has(d, key) THEN d ELSE Append(d, [k |-> key, v |-> v])

\* d[key] = v: an existing key keeps its position, a new key goes last
Put(d, key, v) ==
    IF Has(d, key)
    THEN [i \in DOMAIN d |-> IF d[i].k = key THEN [k |-> key, v |-> v] ELSE d[i]]
    ELSE Append(d, [k |-> key, v |-> v])

RECURSIVE DictUpdate(_, _)
\* d.update(e): the items of e assigned in e's order
DictUpdate(d, e) ==
    IF e = <<>> THEN d ELSE DictUpdate(Put(d, Head(e).k, Head(e).v), Tail(e))

\* the mapping of an ordered dict, its order forgotten (dict equality)
AsMap(d) == [key \in Keys(d) |-> Get(d, key)]

(* -------------------------------- DST --------------------------------- *)

\* a merge that forgets to clear the state on a name
AfterNameReset_keep(st, semantics) == st

\* state.clear() when the diff names an item
AfterNameReset(st, semantics) == IF Has(semantics, "name") THEN <<>> ELSE st

\* semantics["sort"]["value"]
SortSlot(semantics) == DictGet(Get(semantics, "sort"), "value").s

\* state[slot].get("operator") raises AttributeError on a str or an int
SortRuleRaises(st, semantics) ==
    /\ Has(semantics, "sort")
    /\ Has(st, SortSlot(semantics))
    /\ ~IsDict(Get(st, SortSlot(semantics)))

\* a sort rule that removes the constraint whatever its operator
AfterSortRule_anyOperator(st, semantics) ==
    IF /\ Has(semantics, "sort")
       /\ Has(st, SortSlot(semantics))
       /\ DictGet(Get(st, SortSlot(semantics)), "operator") # None
    THEN Del(st, SortSlot(semantics))
    ELSE st

\* a sort rule that removes nothing
AfterSortRule_never(st, semantics) == st

\* if slot in state and state[slot].get("operator") == "==": del state[slot]
AfterSortRule(st, semantics) ==
    IF /\ Has(semantics, "sort")
       /\ Has(st, SortSlot(semantics))
       /\ DictGet(Get(st, SortSlot(semantics)), "operator") = Str("==")
    THEN Del(st, SortSlot(semantics))
    ELSE st

\* a merge that works on a copy and leaves the dict it is given alone
DST_update_copy(st, semantics) ==
    LET s1 == AfterNameReset(st, semantics)
    IN  IF SortRuleRaises(s1, semantics)
        THEN [raised |-> TRUE, arg |-> st, ret |-> <<>>]
        ELSE LET s3 == DictUpdate(AfterSortRule(s1, semantics), semantics)
             IN  [raised |-> FALSE, arg |-> st, ret |-> s3]

\* DST.update(state, semantics).  The dict it is given is changed in place
\* (clear, del, update) and that same dict is returned:  raised  tells
\* whether the call raised,  arg  is the content of the dict passed in when
\* the call ends, and  ret  the content of the dict returned.
DST_update(st, semantics) ==
    LET s1 == AfterNameReset(st, semantics)
    IN  IF SortRuleRaises(s1, semantics)
        THEN [raised |-> TRUE, arg |-> s1, ret |-> <<>>]
        ELSE LET s3 == DictUpdate(AfterSortRule(s1, semantics), semantics)
             IN  [raised |-> FALSE, arg |-> s3, ret |-> s3]

(* ------------------------------ MockedDB ------------------------------ *)

\* self.data, in insertion order
MockedDB_data ==
    << [name |-> Str("economy"), price |-> Num(50), data |-> Num(10), requirement |-> None],
       [name |-> Str("travel"), price |-> Num(180), data |-> Num(100), requirement |-> None],
       [name |-> Str("unlimited"), price |-> Num(300), data |-> Num(1000), requirement |-> None],
       [name |-> Str("campus"), price |-> Num(150), data |-> Num(200), requirement |-> Str("student")] >>

\* the threshold text meaning "unbounded"
NoLimit == Str("nolimit")

\* the data value that "unbounded" stands for
MaxData == 1000

\* the ints whose decimal text a str operand of eval may spell
NumeralRange == {10, 50, 100, 150, 180, 200, 300, 1000}

\* what an operand's text denotes inside eval: an int, None, a dict
\* literal, or no expression at all (an undefined name, a syntax error)
Operand(v) ==
    CASE v.t = "int" -> [kind |-> "int", n |-> v.n]
      [] v.t = "none" -> [kind |-> "none", n |-> 0]
      [] v.t = "dict" -> [kind |-> "dict", n |-> 0]
      [] OTHER ->
           IF \E n \in NumeralRange : IntToStr(n) = v.s
           THEN [kind |-> "int", n |-> CHOOSE n \in NumeralRange : IntToStr(n) = v.s]
           ELSE IF v.s = "None" THEN [kind |-> "none", n |-> 0]
           ELSE [kind |-> "err", n |-> 0]

\* an eval whose <= and >= leave out equality
EvalCompare_strict(l, op, r) ==
    LET a == Operand(l)
        b == Operand(r)
        o == PyStr(op)
        B(x) == IF x THEN "T" ELSE "F"
    IN  IF a.kind = "err" \/ b.kind = "err" \/ o \notin {"<=", ">=", "==", "<", ">", "!="}
        THEN "E"
        ELSE IF a.kind = "int" /\ b.kind = "int"
        THEN CASE o = "<=" -> B(a.n < b.n)
               [] o = ">=" -> B(a.n > b.n)
               [] o = "==" -> B(a.n = b.n)
               [] o = "<" -> B(a.n < b.n)
               [] o = ">" -> B(a.n > b.n)
               [] OTHER -> B(a.n # b.n)
        ELSE CASE o = "==" -> B(a.kind = "none" /\ b.kind = "none")
               [] o = "!=" -> B(~(a.kind = "none" /\ b.kind = "none"))
               [] OTHER -> "E"

\* eval(f"{record[key]}{value['operator']}{value['value']}") as a truth
\* value: "T", "F", or "E" when eval raises (NameError, SyntaxError,
\* TypeError).  An operator text that is no Python comparison raises.
EvalCompare(l, op, r) ==
    LET a == Operand(l)
        b == Operand(r)
        o == PyStr(op)
        B(x) == IF x THEN "T" ELSE "F"
    IN  IF a.kind = "err" \/ b.kind = "err" \/ o \notin {"<=", ">=", "==", "<", ">", "!="}
        THEN "E"
        ELSE IF a.kind = "int" /\ b.kind = "int"
        THEN CASE o = "<=" -> B(a.n <= b.n)
               [] o = ">=" -> B(a.n >= b.n)
               [] o = "==" -> B(a.n = b.n)
               [] o = "<" -> B(a.n < b.n)
               [] o = ">" -> B(a.n > b.n)
               [] OTHER -> B(a.n # b.n)
        ELSE CASE o = "==" -> B(a.kind = "none" /\ b.kind = "none")
               [] o = "!=" -> B(~(a.kind = "none" /\ b.kind = "none"))
               [] OTHER -> "E"

\* a match that takes "unbounded" for "at least the top value"
MatchCondition_atLeast(record, key, value) ==
    IF key = "sort" THEN "T"
    ELSE IF key = "data" /\ IsDict(value) /\ DictGet(value, "value") = NoLimit
    THEN IF record[key].n < MaxData THEN "F" ELSE "T"
    ELSE IF key \notin DOMAIN record THEN "E"
    ELSE IF IsDict(value) /\ "operator" \in DOMAIN value.f
    THEN IF "value" \notin DOMAIN value.f THEN "E"
         ELSE EvalCompare(record[key], value.f["operator"], value.f["value"])
    ELSE IF PyStr(record[key]) # PyStr(value) THEN "F" ELSE "T"

\* a match that compares an exact value with the field itself, not their texts
MatchCondition_typed(record, key, value) ==
    IF key = "sort" THEN "T"
    ELSE IF key = "data" /\ IsDict(value) /\ DictGet(value, "value") = NoLimit
    THEN IF record[key] # Num(MaxData) THEN "F" ELSE "T"
    ELSE IF key \notin DOMAIN record THEN "E"
    ELSE IF IsDict(value) /\ "operator" \in DOMAIN value.f
    THEN IF "value" \notin DOMAIN value.f THEN "E"
         ELSE EvalCompare(record[key], value.f["operator"], value.f["value"])
    ELSE IF record[key] # value THEN "F" ELSE "T"

\* one condition of _match_record against one record: "T" (go on to the
\* next condition), "F" (return False) or "E" (raises; record[key] is a
\* KeyError when the key is no field of the record)
MatchCondition(record, key, value) ==
    IF key = "sort" THEN "T"
    ELSE IF key = "data" /\ IsDict(value) /\ DictGet(value, "value") = NoLimit
    THEN IF record[key] # Num(MaxData) THEN "F" ELSE "T"
    ELSE IF key \notin DOMAIN record THEN "E"
    ELSE IF IsDict(value) /\ "operator" \in DOMAIN value.f
    THEN IF "value" \notin DOMAIN value.f THEN "E"
         ELSE EvalCompare(record[key], value.f["operator"], value.f["value"])
    ELSE IF PyStr(record[key]) # PyStr(value) THEN "F" ELSE "T"

RECURSIVE MockedDB_match_record(_, _)
\* _match_record(record, conditions): the conditions in the dict's order,
\* stopping at the first that fails or raises
MockedDB_match_record(record, conditions) ==
    IF conditions = <<>> THEN "T"
    ELSE LET r == MatchCondition(record, Head(conditions).k, Head(conditions).v)
         IN  IF r = "T" THEN MockedDB_match_record(record, Tail(conditions)) ELSE r

\* a gate that lets every record through
Gated_never(record, kwargs) == FALSE

\* the eligibility gate of retrieve: the record is skipped
Gated(record, kwargs) ==
    /\ Truthy(record["requirement"])
    /\ \/ ~Has(kwargs, "status")
       \/ Get(kwargs, "status") # record["requirement"]

RECURSIVE FilterLoop(_, _)
\* the filter loop of retrieve over the records in order: the records kept,
\* and whether _match_record raised on the way
FilterLoop(data, kwargs) ==
    IF data = <<>> THEN [raised |-> FALSE, records |-> <<>>]
    ELSE LET rec == Head(data)
             m == IF Gated(rec, kwargs) THEN "F" ELSE MockedDB_match_record(rec, kwargs)
         IN  IF m = "E" THEN [raised |-> TRUE, records |-> <<>>]
             ELSE LET rest == FilterLoop(Tail(data), kwargs)
                  IN  IF rest.raised THEN rest
                      ELSE [raised |-> FALSE,
                            records |-> IF m = "T" THEN <<rec>> \o rest.records
                                        ELSE rest.records]

\* the rank of a catalog name in Python's str order (by code point:
\* 无限套餐 < 校园套餐 < 畅游套餐 < 经济套餐)
NameRank(s) ==
    CASE s = "unlimited" -> 1 [] s = "campus" -> 2 [] s = "travel" -> 3
      [] s = "economy" -> 4 [] OTHER -> 0

\* a < b between two sort keys of the same orderable type
KeyLess(a, b) == IF a.t = "int" THEN a.n < b.n ELSE NameRank(a.s) < NameRank(b.s)

RECURSIVE InsertBeforeEquals(_, _, _, _)
\* an insertion that puts x in front of the elements equal to it
InsertBeforeEquals(x, sorted, key, reverse) ==
    IF sorted = <<>> THEN <<x>>
    ELSE IF (IF reverse THEN ~KeyLess(x[key], Head(sorted)[key])
                        ELSE ~KeyLess(Head(sorted)[key], x[key]))
    THEN <<x>> \o sorted
    ELSE <<Head(sorted)>> \o InsertBeforeEquals(x, Tail(sorted), key, reverse)

RECURSIVE InsertAfterEquals(_, _, _, _)
\* x placed in the ordered sequence behind every element that does not
\* come after it: equal keys stay in arrival order
InsertAfterEquals(x, sorted, key, reverse) ==
    IF sorted = <<>> THEN <<x>>
    ELSE IF (IF reverse THEN KeyLess(Head(sorted)[key], x[key])
                        ELSE KeyLess(x[key], Head(sorted)[key]))
    THEN <<x>> \o sorted
    ELSE <<Head(sorted)>> \o InsertAfterEquals(x, Tail(sorted), key, reverse)

RECURSIVE StableSort(_, _, _, _)
\* sorted(records, key=lambda x: x[key], reverse=reverse), a stable sort;
\* acc holds the records sorted so far
StableSort(records, acc, key, reverse) ==
    IF records = <<>> THEN acc
    ELSE StableSort(Tail(records), InsertAfterEquals(Head(records), acc, key, reverse),
                    key, reverse)

\* sorted raises: x[key] on a missing field (KeyError), or keys that
\* Python cannot order (None, or keys of different types: TypeError)
SortKeyRaises(records, key) ==
    \/ \E i \in DOMAIN records : key \notin DOMAIN records[i]
    \/ ~ \/ \A i \in DOMAIN records : records[i][key].t = "int"
         \/ \A i \in DOMAIN records : records[i][key].t = "str"

\* a sort that ignores the ordering of the directive
MockedDB_sort_records_ascendingOnly(records, sort_config) ==
    IF ~Truthy(sort_config)
    THEN [raised |-> FALSE, records |-> StableSort(records, <<>>, "price", FALSE)]
    ELSE IF \/ ~IsDict(sort_config)
            \/ {"value", "ordering"} \ DOMAIN sort_config.f # {}
            \/ sort_config.f["value"].t # "str"
            \/ SortKeyRaises(records, sort_config.f["value"].s)
    THEN [raised |-> TRUE, records |-> <<>>]
    ELSE [raised |-> FALSE,
          records |-> StableSort(records, <<>>, sort_config.f["value"].s, FALSE)]

\* a default order by descending price
MockedDB_sort_records_descending(records, sort_config) ==
    IF ~Truthy(sort_config)
    THEN [raised |-> FALSE, records |-> StableSort(records, <<>>, "price", TRUE)]
    ELSE IF \/ ~IsDict(sort_config)
            \/ {"value", "ordering"} \ DOMAIN sort_config.f # {}
            \/ sort_config.f["value"].t # "str"
            \/ SortKeyRaises(records, sort_config.f["value"].s)
    THEN [raised |-> TRUE, records |-> <<>>]
    ELSE [raised |-> FALSE,
          records |-> StableSort(records, <<>>, sort_config.f["value"].s,
                                 sort_config.f["ordering"] = Str("descend"))]

\* _sort_records(records, sort_config), called with two records or more
MockedDB_sort_records(records, sort_config) ==
    IF ~Truthy(sort_config)
    THEN [raised |-> FALSE, records |-> StableSort(records, <<>>, "price", FALSE)]
    ELSE IF \/ ~IsDict(sort_config)
            \/ {"value", "ordering"} \ DOMAIN sort_config.f # {}
            \/ sort_config.f["value"].t # "str"
            \/ SortKeyRaises(records, sort_config.f["value"].s)
    THEN [raised |-> TRUE, records |-> <<>>]
    ELSE [raised |-> FALSE,
          records |-> StableSort(records, <<>>, sort_config.f["value"].s,
                                 sort_config.f["ordering"] = Str("descend"))]

\* a retrieve that sorts self.data itself (list.sort) before it filters
MockedDB_retrieve_sortsCatalog(data, kwargs) ==
    LET ordered == StableSort(data, <<>>, "price", FALSE)
        kept == FilterLoop(ordered, kwargs)
        out == IF kept.raised \/ Len(kept.records) <= 1 THEN kept
               ELSE MockedDB_sort_records(kept.records,
                        IF Has(kwargs, "sort") THEN Get(kwargs, "sort") ELSE None)
    IN  [raised |-> out.raised, records |-> out.records, data |-> ordered]

\* MockedDB.retrieve(**kwargs) over the catalog data:  raised  and  records
\* are the outcome of the call and  data  is self.data when the call ends.
\* The records kept go to a new list and sorted builds another one, so
\* self.data is left as it was.
MockedDB_retrieve(data, kwargs) ==
    LET kept == FilterLoop(data, kwargs)
        out == IF kept.raised \/ Len(kept.records) <= 1 THEN kept
               ELSE MockedDB_sort_records(kept.records,
                        IF Has(kwargs, "sort") THEN Get(kwargs, "sort") ELSE None)
    IN  [raised |-> out.raised, records |-> out.records, data |-> data]

(* ----------------------------- auto_audit ----------------------------- *)

\* the number of invocations of auto_audit, of comments, and the latest
\* time of the clock, counted in gaps of MinGap seconds
MaxInvocations == 2

MaxComments == 2

MaxClock == 1

Invocations == 1..MaxInvocations

\* _last_execution_time = None
NoTime == 0 - 1

\* an invocation is skipped when less than 5 seconds have passed since the
\* time read by the last invocation that finished
MinGap == 5

\* the times that datetime.now() returns, in seconds: the multiples of
\* MinGap up to the latest time, so that two reads are either equal or at
\* least MinGap apart
Times == {k * MinGap : k \in 0..MaxClock}

\* _task_lock is free
Free == 0

\* where an invocation is between the statement that sets _task_running
\* and the end of the finally block
InBody == {"query", "audit", "stamp", "finally", "reset"}

\* module level: _task_running = False, the lock free,
\* _last_execution_time = None; the comments wait for an audit (status 0)
InitAudit ==
    /\ task_running = FALSE
    /\ task_lock = Free
    /\ last_execution_time = NoTime
    /\ now = 0
    /\ comments = [c \in 1..MaxComments |-> 0]
    /\ pc = [i \in Invocations |-> "idle"]
    /\ current_time = [i \in Invocations |-> 0]
    /\ todo = [i \in Invocations |-> <<>>]
    /\ touched = [i \in Invocations |-> FALSE]
    /\ ended = [i \in Invocations |-> "none"]

\* auto_audit is called: current_time = datetime.now()
Start(i) ==
    /\ UNCHANGED dialogVars
    /\ pc[i] = "idle"
    /\ \E t \in {u \in Times : u >= now} :
           /\ now' = t
           /\ current_time' = [current_time EXCEPT ![i] = t]
    /\ pc' = [pc EXCEPT ![i] = "lock"]
    /\ UNCHANGED <<task_running, task_lock, last_execution_time, comments, todo, touched, ended>>

\* an invocation that goes on to the check without the lock
Acquire_unlocked(i) ==
    /\ UNCHANGED dialogVars
    /\ pc[i] = "lock"
    /\ pc' = [pc EXCEPT ![i] = "check"]
    /\ UNCHANGED <<task_running, task_lock, last_execution_time, now, comments, current_time,
                   todo, touched, ended>>

\* with _task_lock: the invocation waits until the lock is free
Acquire(i) ==
    /\ UNCHANGED dialogVars
    /\ pc[i] = "lock"
    /\ task_lock = Free
    /\ task_lock' = i
    /\ pc' = [pc EXCEPT ![i] = "check"]
    /\ UNCHANGED <<task_running, last_execution_time, now, comments, current_time, todo,
                   touched, ended>>

\* if _task_running: return; if the last execution is less than 5 seconds
\* old: return.  The return leaves the with block and frees the lock.
Check(i) ==
    /\ UNCHANGED dialogVars
    /\ pc[i] = "check"
    /\ IF task_running
       THEN /\ pc' = [pc EXCEPT ![i] = "done"]
            /\ ended' = [ended EXCEPT ![i] = "skipped_running"]
            /\ task_lock' = Free
       ELSE IF last_execution_time # NoTime /\ current_time[i] - last_execution_time < MinGap
       THEN /\ pc' = [pc EXCEPT ![i] = "done"]
            /\ ended' = [ended EXCEPT ![i] = "skipped_recent"]
            /\ task_lock' = Free
       ELSE /\ pc' = [pc EXCEPT ![i] = "mark"]
            /\ UNCHANGED <<ended, task_lock>>
    /\ UNCHANGED <<task_running, last_execution_time, now, comments, current_time, todo, touched>>

\* _task_running = True, and the with block ends
Mark(i) ==
    /\ UNCHANGED dialogVars
    /\ pc[i] = "mark"
    /\ task_running' = TRUE
    /\ task_lock' = Free
    /\ pc' = [pc EXCEPT ![i] = "query"]
    /\ UNCHANGED <<last_execution_time, now, comments, current_time, todo, touched, ended>>

\* an exception that passes by the finally block: the invocation ends with
\* _task_running as it is
Raise_pastFinally(i) ==
    /\ pc' = [pc EXCEPT ![i] = "done"]
    /\ ended' = [ended EXCEPT ![i] = "raised"]

\* an exception inside the try block: control goes to the finally block
\* and the exception leaves auto_audit after it
Raise(i) ==
    /\ pc' = [pc EXCEPT ![i] = "finally"]
    /\ ended' = [ended EXCEPT ![i] = "raised"]

\* the ids of the comments with status 0, ordered by id
Pending == SelectSeq([c \in 1..MaxComments |-> c], LAMBDA c : comments[c] = 0)

\* try: the app context, the client and the query of the comments with
\* status 0; each of them may raise
Query(i) ==
    /\ UNCHANGED dialogVars
    /\ pc[i] = "query"
    /\ \/ /\ todo' = [todo EXCEPT ![i] = Pending]
          /\ touched' = [touched EXCEPT ![i] = TRUE]
          /\ pc' = [pc EXCEPT ![i] = IF Pending = <<>> THEN "stamp" ELSE "audit"]
          /\ UNCHANGED ended
       \/ /\ Raise(i)
          /\ UNCHANGED <<todo, touched>>
    /\ UNCHANGED <<task_running, task_lock, last_execution_time, now, comments, current_time>>

\* one pass of the loop: the API call, eval of its reply and the commit of
\* the comment's status (1 passed, 2 rejected); each of the three may raise
AuditOne(i) ==
    /\ UNCHANGED dialogVars
    /\ pc[i] = "audit"
    /\ \/ /\ \E status \in {1, 2} :
                 comments' = [comments EXCEPT ![Head(todo[i])] = status]
          /\ todo' = [todo EXCEPT ![i] = Tail(todo[i])]
          /\ pc' = [pc EXCEPT ![i] = IF Tail(todo[i]) = <<>> THEN "stamp" ELSE "audit"]
          /\ UNCHANGED ended
       \/ /\ Raise(i)
          /\ UNCHANGED <<comments, todo>>
    /\ UNCHANGED <<task_running, task_lock, last_execution_time, now, current_time, touched>>

\* _last_execution_time = current_time, the last statement of the try block
Stamp(i) ==
    /\ UNCHANGED dialogVars
    /\ pc[i] = "stamp"
    /\ last_execution_time' = current_time[i]
    /\ pc' = [pc EXCEPT ![i] = "finally"]
    /\ ended' = [ended EXCEPT ![i] = "finished"]
    /\ UNCHANGED <<task_running, task_lock, now, comments, current_time, todo, touched>>

\* finally: with _task_lock
AcquireFinally(i) ==
    /\ UNCHANGED dialogVars
    /\ pc[i] = "finally"
    /\ task_lock = Free
    /\ task_lock' = i
    /\ pc' = [pc EXCEPT ![i] = "reset"]
    /\ UNCHANGED <<task_running, last_execution_time, now, comments, current_time, todo,
                   touched, ended>>

\* _task_running = False, and the with block ends
Reset(i) ==
    /\ UNCHANGED dialogVars
    /\ pc[i] = "reset"
    /\ task_running' = FALSE
    /\ task_lock' = Free
    /\ pc' = [pc EXCEPT ![i] = "done"]
    /\ UNCHANGED <<last_execution_time, now, comments, current_time, todo, touched, ended>>

\* a step of invocation i once it is called
Step(i) ==
    \/ Acquire(i)
    \/ Check(i)
    \/ Mark(i)
    \/ Query(i)
    \/ AuditOne(i)
    \/ Stamp(i)
    \/ AcquireFinally(i)
    \/ Reset(i)

\* the number of turns of one session
MaxTurns == 3

Item(key, v) == [k |-> key, v |-> v]

NameValues == {Str("economy"), Str("campus")}

PriceValues == {Cmp("<=", Num(200)), Cmp("==", Num(180)), Cmp(">=", Num(200)), Num(50)}

DataValues == {Cmp(">=", Num(100)), Cmp("==", NoLimit)}

StatusValues == {Str("student"), Str("vip")}

SortValues == {SortDir("price", "ascend"), SortDir("price", "descend"), SortDir("data", "descend")}

\* the JSON objects the extraction service may answer with, before the
\* adapter drops their empty fields: every one-field object, the
\* two-field objects of the prompt's examples, objects that carry a name
\* or a sort directive beside another field, and objects with null fields
RawSemantics ==
    {<<Item("name", v)>> : v \in NameValues}
    \cup {<<Item("price", v)>> : v \in PriceValues}
    \cup {<<Item("data", v)>> : v \in DataValues}
    \cup {<<Item("status", v)>> : v \in StatusValues}
    \cup {<<Item("sort", v)>> : v \in SortValues}
    \cup { <<Item("color", Str("red"))>>,
           <<Item("sort", SortDir("price", "ascend")), Item("data", Cmp(">=", Num(100)))>>,
           <<Item("data", Cmp(">=", Num(100))), Item("price", Cmp("<=", Num(200)))>>,
           <<Item("name", Str("economy")), Item("price", Cmp("<=", Num(200)))>>,
           <<Item("price", Cmp("==", Num(180))), Item("name", Str("campus"))>>,
           <<Item("sort", SortDir("price", "ascend")), Item("name", Str("economy"))>>,
           <<Item("price", Cmp("==", Num(180))), Item("sort", SortDir("price", "ascend"))>>,
           <<Item("sort", SortDir("price", "descend")), Item("price", Cmp("==", Num(180)))>>,
           <<Item("name", None)>>,
           <<Item("name", None), Item("price", Cmp("<=", Num(200)))>> }

\* the texts the generation service may answer with
Replies == {Str("reply")}

\* the user's input of the n-th turn
Utterance(n) == Str("input" \o IntToStr(n))

(* -------------------------------- NLU --------------------------------- *)

\* an adapter that hands on every field of the answer
NLU_get_completion_keepAll(raw) == raw

\* {k: v for k, v in semantics.items() if v}
NLU_get_completion(raw) == SelectSeq(raw, LAMBDA it : Truthy(it.v))

(* --------------------------- DialogManager ---------------------------- *)

SYSTEM_PROMPT == Str("system prompt")

\* A text that str.replace works on is the sequence of its pieces: the
\* stretches of plain text and the placeholders, each placeholder one piece.

\* the guidance that main appends to both templates
Guidance == " guidance"

\* the templates of main: "recommand" and "not_found", each with guidance
prompt_templates ==
    [recommand |-> <<"said: ", "__INPUT__", " introduce: ", "__NAME__", ", fee ",
                     "__PRICE__", ", data ", "__DATA__", "G.", Guidance>>,
     not_found |-> <<"said: ", "__INPUT__", " nothing at ", "__PRICE__", " with ",
                     "__DATA__", "G, ask for another.", Guidance>>]

\* f"__{key.upper()}__"
Placeholder(key) ==
    CASE key = "name" -> "__NAME__"
      [] key = "price" -> "__PRICE__"
      [] key = "data" -> "__DATA__"
      [] key = "requirement" -> "__REQUIREMENT__"
      [] key = "sort" -> "__SORT__"
      [] key = "status" -> "__STATUS__"
      [] OTHER -> "__COLOR__"

\* text.replace(old, new)
Replace(text, old, new) ==
    [i \in DOMAIN text |-> LET piece == text[i] IN IF piece = old THEN new ELSE piece]

RECURSIVE Join(_)
\* the str that the pieces of a text make up
Join(text) == IF text = <<>> THEN "" ELSE Head(text) \o Join(Tail(text))

\* the keys of a catalog record, in the order of record.items()
RecordKeys == <<"name", "price", "data", "requirement">>

RECURSIVE ReplaceFields(_, _, _)
\* the loop of _create_recommend_prompt over record.items()
ReplaceFields(prompt, record, keys) ==
    IF keys = <<>> THEN prompt
    ELSE ReplaceFields(Replace(prompt, Placeholder(Head(keys)), PyStr(record[Head(keys)])),
                       record, Tail(keys))

\* a _create_prompt that recommends the last record of the result
DialogManager_create_recommend_prompt_lastRecord(user_input, records) ==
    ReplaceFields(Replace(prompt_templates.recommand, "__INPUT__", user_input),
                  records[Len(records)], RecordKeys)

\* _create_recommend_prompt(user_input, records[0])
DialogManager_create_recommend_prompt(user_input, records) ==
    ReplaceFields(Replace(prompt_templates.recommand, "__INPUT__", user_input),
                  records[1], RecordKeys)

\* a rendering that reads value["operator"] of every dict, so that a sort
\* directive raises KeyError
SlotRaises_everyDict(value) == IsDict(value) /\ "operator" \notin DOMAIN value.f

\* value["value"] raises KeyError for a dict that has an operator and no
\* value
SlotRaises(value) ==
    IsDict(value) /\ "operator" \in DOMAIN value.f /\ "value" \notin DOMAIN value.f

\* what a slot of the state is rendered as: operator and threshold joined
\* for a dict with an operator, str(value) otherwise
SlotText(value) ==
    IF IsDict(value) /\ "operator" \in DOMAIN value.f
    THEN PyStr(value.f["operator"]) \o PyStr(value.f["value"])
    ELSE PyStr(value)

RECURSIVE ReplaceSlots(_, _)
\* the loop of _create_not_found_prompt over self.state.items()
ReplaceSlots(prompt, items) ==
    IF items = <<>> THEN prompt
    ELSE ReplaceSlots(Replace(prompt, Placeholder(Head(items).k), SlotText(Head(items).v)),
                      Tail(items))

\* _create_not_found_prompt(user_input) with self.state = st
DialogManager_create_not_found_prompt(st, user_input) ==
    IF \E i \in DOMAIN st : SlotRaises(st[i].v)
    THEN [raised |-> TRUE, prompt |-> <<>>]
    ELSE [raised |-> FALSE,
          prompt |-> ReplaceSlots(Replace(prompt_templates.not_found, "__INPUT__", user_input), st)]

\* _create_prompt(user_input, records) with self.state = st
DialogManager_create_prompt(st, user_input, records) ==
    IF records = <<>>
    THEN DialogManager_create_not_found_prompt(st, user_input)
    ELSE [raised |-> FALSE,
          prompt |-> DialogManager_create_recommend_prompt(user_input, records)]

NoUpdate == [raised |-> FALSE, arg |-> <<>>, ret |-> <<>>]

NoRetrieve == [raised |-> FALSE, records |-> <<>>, data |-> <<>>]

\* what the latest call of run did: the state, the history and the catalog
\* it started from, the diff, the outcome of DST.update and of
\* MockedDB.retrieve, and how it ended
Turn(outcome, semantics, upd, found) ==
    [outcome |-> outcome, pre |-> state, sess |-> session, data |-> db,
     semantics |-> semantics, upd |-> upd, found |-> found]

Init ==
    /\ state = <<>>
    /\ session = <<[role |-> "system", content |-> SYSTEM_PROMPT]>>
    /\ db = MockedDB_data
    /\ turn = 0
    /\ last = [outcome |-> "none", pre |-> <<>>, sess |-> <<>>, data |-> <<>>,
               semantics |-> <<>>, upd |-> NoUpdate, found |-> NoRetrieve]
    /\ InitAudit

\* a run that stores the user's input in the history before it parses it
RunExtractionFault_historyFirst ==
    /\ turn < MaxTurns
    /\ turn' = turn + 1
    /\ session' = Append(session, [role |-> "user", content |-> Utterance(turn + 1)])
    /\ last' = Turn("extraction_fault", <<>>, NoUpdate, NoRetrieve)
    /\ UNCHANGED <<state, db>>
    /\ UNCHANGED auditVars

\* run: self.nlu.parse raises (service unreachable, unparseable reply)
RunExtractionFault ==
    /\ turn < MaxTurns
    /\ turn' = turn + 1
    /\ last' = Turn("extraction_fault", <<>>, NoUpdate, NoRetrieve)
    /\ UNCHANGED <<state, session, db>>
    /\ UNCHANGED auditVars

\* run: self.dst.update raises; self.state still names the dict that
\* update was changing
RunUpdateFault(semantics, upd) ==
    /\ upd.raised
    /\ state' = upd.arg
    /\ last' = Turn("update_fault", semantics, upd, NoRetrieve)
    /\ UNCHANGED <<session, db>>

\* run: the state is merged and self.db.retrieve raises
RunRetrieveFault(semantics, upd, found) ==
    /\ ~upd.raised
    /\ found.raised
    /\ state' = upd.ret
    /\ last' = Turn("retrieve_fault", semantics, upd, found)
    /\ db' = found.data
    /\ UNCHANGED session

\* a _generate_response that appends the prompt to self.session itself
\* instead of to a deep copy of it
RunGenerationFault_sharedSession(semantics, upd, found) ==
    /\ ~upd.raised
    /\ ~found.raised
    /\ state' = upd.ret
    /\ last' = Turn("generation_fault", semantics, upd, found)
    /\ db' = found.data
    /\ session' = Append(session, [role |-> "user", content |-> Utterance(turn + 1)])

\* run: merge and retrieval succeed and the generation call raises
RunGenerationFault(semantics, upd, found) ==
    /\ ~upd.raised
    /\ ~found.raised
    /\ state' = upd.ret
    /\ last' = Turn("generation_fault", semantics, upd, found)
    /\ db' = found.data
    /\ UNCHANGED session

\* a run whose planner takes the sort directive out of the state once it
\* has built the prompt
RunReplied_dropsSort(semantics, upd, found, response) ==
    /\ ~upd.raised
    /\ ~found.raised
    /\ state' = Del(upd.ret, "sort")
    /\ session' = session \o <<[role |-> "user", content |-> Utterance(turn + 1)],
                               [role |-> "assistant", content |-> response]>>
    /\ last' = Turn("replied", semantics, upd, found)
    /\ db' = found.data

\* a run that stores the prompt it built, not the user's input, in the
\* history
RunReplied_storesPrompt(semantics, upd, found, response) ==
    /\ ~upd.raised
    /\ ~found.raised
    /\ state' = upd.ret
    /\ session' = session \o
           <<[role |-> "user",
              content |-> Str(Join(DialogManager_create_prompt(
                                       upd.ret, Utterance(turn + 1).s, found.records).prompt))],
             [role |-> "assistant", content |-> response]>>
    /\ last' = Turn("replied", semantics, upd, found)
    /\ db' = found.data

\* run to its end: the user's input and the reply are appended
RunReplied(semantics, upd, found, response) ==
    /\ ~upd.raised
    /\ ~found.raised
    /\ state' = upd.ret
    /\ session' = session \o <<[role |-> "user", content |-> Utterance(turn + 1)],
                               [role |-> "assistant", content |-> response]>>
    /\ last' = Turn("replied", semantics, upd, found)
    /\ db' = found.data

\* run(user_input) once the extraction service has answered raw;
\* _create_prompt (line 221) assigns nothing, and raises for no value that
\* the answers of the model hold (SlotRaises), so that the turn goes on from
\* retrieval to the generation call
Run(raw) ==
    LET semantics == NLU_get_completion(raw)
        upd == DST_update(state, semantics)
        found == MockedDB_retrieve(db, upd.ret)
    IN  /\ turn < MaxTurns
        /\ turn' = turn + 1
        /\ UNCHANGED auditVars
        /\ \/ RunUpdateFault(semantics, upd)
           \/ RunRetrieveFault(semantics, upd, found)
           \/ RunGenerationFault(semantics, upd, found)
           \/ \E response \in Replies : RunReplied(semantics, upd, found, response)

Next ==
    \/ RunExtractionFault
    \/ \E raw \in RawSemantics : Run(raw)

Spec == Init /\ [][Next]_vars

(* ---------------- retrieval over other catalogs ----------------------- *)

\* the number of turns of a session over a catalog of Catalogs
MaxQueryTurns == 2

\* a catalog whose records tie on price (180, 50) and on data (1000), in an
\* order that no attribute sorts, with a data value above the one that
\* "unbounded" stands for
TieCatalog ==
    << [name |-> Str("travel"), price |-> Num(180), data |-> Num(2000), requirement |-> None],
       [name |-> Str("economy"), price |-> Num(180), data |-> Num(1000), requirement |-> None],
       [name |-> Str("unlimited"), price |-> Num(50), data |-> Num(1000), requirement |-> None],
       [name |-> Str("campus"), price |-> Num(50), data |-> Num(10), requirement |-> Str("student")] >>

\* the catalogs a MockedDB may be built with: the one of the source and
\* TieCatalog
Catalogs == {MockedDB_data, TieCatalog}

\* the answers of the extraction service in these sessions: thresholds that
\* equal a record's value, operators in and out of the schema, the
\* "unbounded" threshold under two operators, exact values as int and as
\* str, a name, every sort order, and an object with nothing but a null
QuerySemantics ==
    {<<Item("price", v)>> : v \in {Cmp("<=", Num(180)), Cmp("==", Num(180)), Cmp(">=", Num(180)),
                                   Cmp("<", Num(180)), Cmp("=", Num(180)),
                                   Num(50), Str("50")}}
    \cup {<<Item("data", v)>> : v \in {Cmp(">=", Num(100)), Cmp("==", NoLimit), Cmp("<=", NoLimit)}}
    \cup {<<Item("sort", SortDir(attr, ord))>> : attr \in {"price", "data"}, ord \in {"ascend", "descend"}}
    \cup { <<Item("sort", SortDir("name", "ascend"))>>,
           <<Item("name", Str("economy"))>>,
           <<Item("name", None)>> }

InitCatalog ==
    /\ state = <<>>
    /\ session = <<[role |-> "system", content |-> SYSTEM_PROMPT]>>
    /\ db \in Catalogs
    /\ turn = 0
    /\ last = [outcome |-> "none", pre |-> <<>>, sess |-> <<>>, data |-> <<>>,
               semantics |-> <<>>, upd |-> NoUpdate, found |-> NoRetrieve]
    /\ InitAudit

NextCatalog == turn < MaxQueryTurns /\ \E raw \in QuerySemantics : Run(raw)

SpecCatalog == InitCatalog /\ [][NextCatalog]_vars

(* ------------- sessions with sparse answers and empty results --------- *)

\* the number of turns of a session of SpecPlan
MaxPlanTurns == 2

\* the answers of the extraction service in these sessions: price and data
\* constraints that no record meets and some that several meet, the
\* "unbounded" threshold, an exact price, sort directives, a name of the
\* catalog and one that the catalog does not have, and answers with a null,
\* an empty text or an empty object for a field
PlanSemantics ==
    {<<Item("price", v)>> : v \in {Cmp("<=", Num(40)), Cmp("<=", Num(200)), Cmp(">=", Num(400)),
                                   Num(40)}}
    \cup {<<Item("data", v)>> : v \in {Cmp(">=", Num(100)), Cmp(">=", Num(2000)), Cmp("==", NoLimit)}}
    \cup {<<Item("sort", v)>> : v \in {SortDir("price", "descend"), SortDir("data", "descend")}}
    \cup {<<Item("name", v)>> : v \in {Str("economy"), Str("family")}}
    \cup { <<Item("name", None), Item("price", None)>>,
           <<Item("price", Str("")), Item("data", Cmp(">=", Num(100)))>>,
           <<Item("data", [t |-> "dict", f |-> <<>>])>> }

NextPlan == turn < MaxPlanTurns /\ \E raw \in PlanSemantics : Run(raw)

SpecPlan == Init /\ [][NextPlan]_vars

(* ------------------- sessions with a repeated answer ------------------ *)

\* the number of turns of a session of SpecMerge
MaxMergeTurns == 2

\* the answers of the extraction service in these sessions: a sort directive
\* beside an exact value, an equality or a range on the attribute it sorts
\* by, a sort directive alone, constraints alone, and a name
MergeSemantics ==
    { <<Item("sort", SortDir("price", "ascend")), Item("price", Num(50))>>,
      <<Item("price", Cmp("==", Num(180))), Item("sort", SortDir("price", "ascend"))>>,
      <<Item("sort", SortDir("price", "descend")), Item("price", Cmp("<=", Num(200)))>>,
      <<Item("sort", SortDir("data", "descend"))>>,
      <<Item("price", Cmp("==", Num(180)))>>,
      <<Item("price", Num(50))>>,
      <<Item("data", Cmp(">=", Num(100)))>>,
      <<Item("name", Str("economy")), Item("sort", SortDir("price", "ascend"))>> }

NextMerge == turn < MaxMergeTurns /\ \E raw \in MergeSemantics : Run(raw)

SpecMerge == Init /\ [][NextMerge]_vars

(* ---------------------- the audit job on its own --------------------- *)

\* a call of auto_audit, or a step of one that is under way
NextAudit == \E i \in Invocations : Start(i) \/ Step(i)

SpecAudit == Init /\ [][NextAudit]_vars

\* a thread that can take a step takes one in the end: an invocation that
\* was called is not left waiting forever
SpecAuditFair ==
    SpecAudit /\ \A i \in Invocations : WF_vars(Step(i))

(* ------------------------- the latest turn ---------------------------- *)

\* DST.update was called in the latest turn / returned without raising
UpdateCalled == last.outcome \in {"update_fault", "retrieve_fault", "generation_fault", "replied"}

UpdateReturned == last.outcome \in {"retrieve_fault", "generation_fault", "replied"}

\* MockedDB.retrieve was called in the latest turn / returned without raising
RetrieveCalled == UpdateReturned

RetrieveReturned == last.outcome \in {"generation_fault", "replied"}

\* v is an equality constraint {"operator": "==", ...}
IsEquality(v) == IsDict(v) /\ DictGet(v, "operator") = Str("==")

\* v is a comparative constraint with operator <= or >=
IsRange(v) == IsDict(v) /\ DictGet(v, "operator") \in {Str("<="), Str(">=")}

\* the diff of the latest turn carries a sort directive on an attribute
\* that the state held before and that the diff does not set anew
SortOnHeld ==
    /\ UpdateCalled
    /\ Has(last.semantics, "sort")
    /\ Has(last.pre, SortSlot(last.semantics))
    /\ ~Has(last.semantics, SortSlot(last.semantics))

\* the prices of a sequence of records
Prices(records) == [i \in DOMAIN records |-> records[i]["price"].n]

(* ------------------------------ claims -------------------------------- *)

\* C1: whenever the diff contains a name key, DST.update returns a state that
\* has exactly the keys and values of the diff: every key the state held
\* before the call is discarded.
C1_NameReset ==
    (UpdateCalled /\ Has(last.semantics, "name")) =>
        /\ ~last.upd.raised
        /\ AsMap(last.upd.ret) = AsMap(last.semantics)
        /\ state = last.upd.ret

\* a name arrives while the state holds keys that the diff does not carry
C1_Witness ==
    /\ UpdateReturned
    /\ Has(last.semantics, "name")
    /\ Keys(last.pre) \ Keys(last.semantics) # {}

C3_SortRemovesAnyConstraint ==
    (SortOnHeld /\ UpdateReturned) => ~Has(last.upd.ret, SortSlot(last.semantics))

\* C3 amended: after such a merge the state holds no equality (==) constraint
\* on A that was set before the directive arrived; a constraint on A that
\* stays is the <= or >= constraint the state held before, unchanged.
C3_SortRemovesEquality ==
    (SortOnHeld /\ UpdateReturned /\ Has(last.upd.ret, SortSlot(last.semantics))) =>
        /\ ~IsEquality(Get(last.upd.ret, SortSlot(last.semantics)))
        /\ IsRange(Get(last.pre, SortSlot(last.semantics)))
        /\ Get(last.upd.ret, SortSlot(last.semantics)) = Get(last.pre, SortSlot(last.semantics))

\* a sort directive on A arrives while the state holds a constraint on A and
\* other keys, and the merge returns
C3_Witness ==
    /\ SortOnHeld
    /\ UpdateReturned
    /\ Cardinality(Keys(last.pre)) >= 2
    /\ IsEquality(Get(last.pre, SortSlot(last.semantics)))
    /\ Keys(state) = (Keys(last.pre) \ {SortSlot(last.semantics)}) \cup Keys(last.semantics)

\* C4: DST.update never raises, whatever the state and the diff.
C4_MergeTotal == UpdateCalled => ~last.upd.raised

\* C5 as stated: the state given to DST.update is not modified by the call;
\* its content when the call ends is its content before the call.
C5_MergePure == UpdateCalled => last.upd.arg = last.pre

\* C5 amended: DST.update changes the dict it is given in place and returns
\* that same dict, so that when the call returns the caller's pre-merge
\* reference shows the merged state.
C5_MergeInPlace == UpdateReturned => (last.upd.arg = last.upd.ret /\ state = last.upd.arg)

\* a merge that changed the state has returned
C5_Witness == UpdateReturned /\ last.upd.ret # last.pre /\ last.pre # <<>>

\* key is the equality constraint that the sort rule of the latest merge removed
C6_RemovedBySortRule(key) ==
    /\ Has(last.semantics, "sort")
    /\ key = SortSlot(last.semantics)
    /\ IsEquality(Get(last.pre, key))

\* C6: after a merge whose diff has no name key, every key of the diff maps to
\* the diff's whole value, every other key of the old state keeps its old
\* value unless it is the equality constraint removed by the sort rule, and
\* the state has no further key; an earlier sort directive persists.
C6_LastWriteWins ==
    (UpdateReturned /\ ~Has(last.semantics, "name")) =>
        /\ \A key \in Keys(last.semantics) :
               Has(state, key) /\ Get(state, key) = Get(last.semantics, key)
        /\ \A key \in Keys(last.pre) \ Keys(last.semantics) :
               IF C6_RemovedBySortRule(key)
               THEN ~Has(state, key)
               ELSE Has(state, key) /\ Get(state, key) = Get(last.pre, key)
        /\ Keys(state) \subseteq Keys(last.pre) \cup Keys(last.semantics)

\* a diff without sort and name overwrites a key of a state that holds a
\* sort directive, and the directive is still there
C6_Witness ==
    /\ UpdateReturned
    /\ Has(last.pre, "sort")
    /\ ~Has(last.semantics, "sort")
    /\ ~Has(last.semantics, "name")
    /\ \E key \in Keys(last.semantics) :
           Has(last.pre, key) /\ Get(last.pre, key) # Get(last.semantics, key)
    /\ Get(state, "sort") = Get(last.pre, "sort")

\* C7 as stated: with the empty state, retrieve returns all 4 records of the
\* catalog by ascending price: 50, 150, 180, 300.
C7_EmptyStateAllFour ==
    (RetrieveCalled /\ state = <<>>) =>
        (~last.found.raised /\ Prices(last.found.records) = <<50, 150, 180, 300>>)

\* C7 amended: with the empty state, retrieve returns the 3 records that have
\* no requirement, by ascending price: 50, 180, 300 (the gated record, price
\* 150, is dropped by the eligibility gate).
C7_EmptyStateUngated ==
    (RetrieveCalled /\ state = <<>>) =>
        /\ ~last.found.raised
        /\ Prices(last.found.records) = <<50, 180, 300>>
        /\ \A i \in DOMAIN last.found.records : last.found.records[i]["requirement"] = None

\* retrieve has returned for the empty state
C7_Witness == RetrieveReturned /\ state = <<>> /\ Len(last.found.records) = 3

\* C8: no record with a requirement is in the result of retrieve unless the
\* state has a status entry equal to that requirement.
C8_EligibilitySafety ==
    RetrieveReturned =>
        \A i \in DOMAIN last.found.records :
            Truthy(last.found.records[i]["requirement"]) =>
                /\ Has(state, "status")
                /\ Get(state, "status") = last.found.records[i]["requirement"]

\* retrieve returned without a record that has a requirement and that meets
\* every other condition of the state, the state's status being another one
C8_Witness ==
    /\ RetrieveReturned
    /\ Has(state, "status")
    /\ \E i \in DOMAIN db :
           /\ Truthy(db[i]["requirement"])
           /\ Get(state, "status") # db[i]["requirement"]
           /\ MockedDB_match_record(db[i], Del(state, "status")) = "T"
           /\ \A j \in DOMAIN last.found.records : last.found.records[j] # db[i]

\* C9: when the state's status equals a record's requirement, retrieve
\* returns without error and the result has that record if it meets the other
\* conditions of the state; a record without requirement is never gated.
C9_GateOpens ==
    /\ (RetrieveCalled /\ Has(state, "status")) =>
           /\ ~last.found.raised
           /\ \A i \in DOMAIN db :
                  (/\ db[i]["requirement"] = Get(state, "status")
                   /\ MockedDB_match_record(db[i], Del(state, "status")) = "T") =>
                      \E j \in DOMAIN last.found.records : last.found.records[j] = db[i]
    /\ \A i \in DOMAIN db : db[i]["requirement"] = None => ~Gated(db[i], state)

\* C10: a key of the state that is no field of the catalog records (and is
\* not sort) changes nothing: retrieve raises no error and returns what it
\* returns for the state without that key.
C10_UnknownSlotsInert ==
    RetrieveCalled =>
        \A key \in Keys(state) \ {"sort"} :
            (\A i \in DOMAIN db : key \notin DOMAIN db[i]) =>
                /\ ~last.found.raised
                /\ last.found = MockedDB_retrieve(db, Del(state, key))

\* a turn of run has just ended in a fault
Failed(outcome) ==
    outcome \in {"extraction_fault", "update_fault", "retrieve_fault", "generation_fault"}

\* merge and retrieval of the diff succeed when the session starts with it
SucceedsAlone(semantics) ==
    /\ ~DST_update(<<>>, semantics).raised
    /\ ~MockedDB_retrieve(db, DST_update(<<>>, semantics).ret).raised

\* C11: after a turn that failed, the next turn whose extraction succeeds is
\* not stopped by the state the failed turn left: if its diff alone raises
\* nothing in merge and retrieval, the turn reaches the generation call (and
\* returns a reply when that call succeeds).
C11_FaultsScopedToTurn ==
    [][(/\ Failed(last.outcome)
        /\ turn' # turn
        /\ last'.outcome # "extraction_fault"
        /\ SucceedsAlone(last'.semantics))
          => last'.outcome \in {"generation_fault", "replied"}]_vars

\* C12: when the extraction call raises, the dialog state and the session
\* history after the turn are those before it.
C12_ExtractionFaultNoEffect ==
    last.outcome = "extraction_fault" => (state = last.pre /\ session = last.sess)

\* the extraction fails in a session that has a state and a history
C12_Witness == last.outcome = "extraction_fault" /\ state # <<>> /\ Len(session) > 1

\* C13: when the generation call raises after merge and retrieval, the dialog
\* state is the merged state, the turn ends in the fault, and the history is
\* the one before the turn: neither the user's input nor a reply is appended.
C13_GenerationFaultCommitsState ==
    last.outcome = "generation_fault" =>
        /\ ~last.upd.raised
        /\ last.upd = DST_update(last.pre, last.semantics)
        /\ state = last.upd.ret
        /\ session = last.sess

\* the generation fails after a merge that changed the state, in a session
\* that has a history
C13_Witness ==
    /\ last.outcome = "generation_fault"
    /\ state # last.pre
    /\ Len(session) > 1

(* ------------------------ claims on retrieval ------------------------- *)

\* v is a comparative constraint of the schema: an operator among <=, >=,
\* == and a numeric threshold
InSchemaComparative(v) ==
    /\ IsDict(v)
    /\ DOMAIN v.f = {"operator", "value"}
    /\ v.f["operator"] \in {Str("<="), Str(">="), Str("==")}
    /\ v.f["value"].t = "int"

\* v is a constraint with an operator outside the schema
ForeignOperator(v) ==
    /\ IsDict(v)
    /\ "operator" \in DOMAIN v.f
    /\ v.f["operator"] \notin {Str("<="), Str(">="), Str("==")}

\* v is an exact value: a str or an int
IsScalar(v) == v.t \in {"str", "int"}

\* a op b for the operators of the schema
CompareHolds(a, op, b) ==
    CASE op = "<=" -> a <= b
      [] op = ">=" -> a >= b
      [] OTHER -> a = b

\* the record meets the constraint v on key: the comparison for a
\* comparative constraint, equal texts for an exact value
Satisfies(record, key, v) ==
    /\ key \in DOMAIN record
    /\ IF IsScalar(v)
       THEN PyStr(record[key]) = PyStr(v)
       ELSE /\ record[key].t = "int"
            /\ CompareHolds(record[key].n, v.f["operator"].s, v.f["value"].n)

\* the records of the latest result, as a set
Found == {last.found.records[i] : i \in DOMAIN last.found.records}

\* the place of a record in the catalog
CatalogIndex(record) == CHOOSE i \in DOMAIN db : db[i] = record

\* the attribute the latest result is ranked by, and whether descending
RankKey == IF Has(state, "sort") THEN DictGet(Get(state, "sort"), "value").s ELSE "price"

RankDescending ==
    Has(state, "sort") /\ DictGet(Get(state, "sort"), "ordering") = Str("descend")

\* C14: a constraint whose operator is outside <=, >=, == raises no error in
\* merge or retrieval and does not change which records are returned: the
\* merge of a diff that carries one returns, and retrieval ends as it ends
\* for the state without that constraint, with the same records.
C14_SchemaViolationsInert ==
    /\ (UpdateCalled /\ \E key \in Keys(last.semantics) :
                            ForeignOperator(Get(last.semantics, key))) => ~last.upd.raised
    /\ RetrieveCalled =>
           \A key \in Keys(state) \ {"sort"} :
               ForeignOperator(Get(state, key)) =>
                   /\ last.found.raised = MockedDB_retrieve(db, Del(state, key)).raised
                   /\ last.found.records = MockedDB_retrieve(db, Del(state, key)).records

\* C15: a constraint on data whose threshold is "unbounded" keeps exactly the
\* records whose data is 1000, whatever its operator and whatever data
\* values the catalog holds: every record returned has data 1000, and when
\* the state has no other condition all ungated records with data 1000 are
\* returned.
C15_UnboundedSentinel ==
    (RetrieveCalled /\ Has(state, "data") /\ IsDict(Get(state, "data"))
       /\ DictGet(Get(state, "data"), "value") = NoLimit) =>
        /\ \A record \in Found : record["data"] = Num(1000)
        /\ Keys(state) \subseteq {"data", "sort"} =>
               /\ ~last.found.raised
               /\ Found = {db[i] : i \in {j \in DOMAIN db :
                               db[j]["requirement"] = None /\ db[j]["data"] = Num(1000)}}

\* the catalog has a record with data above 1000 and two with data 1000;
\* "unbounded" under <= returns these two
C15_Witness ==
    /\ RetrieveReturned
    /\ Has(state, "data")
    /\ Get(state, "data") = Cmp("<=", NoLimit)
    /\ \E i \in DOMAIN db : db[i]["data"].n > 1000 /\ db[i]["requirement"] = None
    /\ Cardinality(Found) = 2

\* C16: when every condition of the state is a comparative constraint of the
\* schema or an exact value, a record that passed the eligibility gate is in
\* the result if and only if it meets every condition: record[K] operator
\* threshold for the comparative ones, equal texts for the exact ones.
C16_ComparativePredicate ==
    (RetrieveReturned
       /\ \A key \in Keys(state) \ {"sort"} :
              InSchemaComparative(Get(state, key)) \/ IsScalar(Get(state, key))) =>
        \A i \in DOMAIN db :
            ~Gated(db[i], state) =>
                (db[i] \in Found <=>
                    \A key \in Keys(state) \ {"sort"} : Satisfies(db[i], key, Get(state, key)))

\* price <= 180 returns a record whose price is 180 and leaves one out that
\* passed the gate
C16_Witness ==
    /\ RetrieveReturned
    /\ Has(state, "price")
    /\ Get(state, "price") = Cmp("<=", Num(180))
    /\ \E record \in Found : record["price"] = Num(180)
    /\ \E i \in DOMAIN db : ~Gated(db[i], state) /\ db[i] \notin Found

\* C17: a record is returned only if, for every exact value of the state,
\* the text of its field equals the text of the value: the int 50 and the
\* str "50" both return the records whose price is 50, and a name returns
\* only the record of that name.
C17_ExactPredicate ==
    /\ RetrieveReturned =>
           \A key \in Keys(state) \ {"sort"} :
               IsScalar(Get(state, key)) =>
                   \A record \in Found :
                       key \in DOMAIN record /\ PyStr(record[key]) = PyStr(Get(state, key))
    /\ (RetrieveCalled /\ state \in {<<Item("price", Num(50))>>, <<Item("price", Str("50"))>>}) =>
           /\ ~last.found.raised
           /\ Found = {db[i] : i \in {j \in DOMAIN db :
                           db[j]["requirement"] = None /\ db[j]["price"] = Num(50)}}
           /\ Found # {}
    /\ (RetrieveCalled /\ Keys(state) = {"name"}) =>
           /\ ~last.found.raised
           /\ Found = {db[i] : i \in {j \in DOMAIN db :
                           db[j]["requirement"] = None /\ db[j]["name"] = Get(state, "name")}}
           /\ Cardinality(Found) = 1

\* the str "50" returned the record whose price is the int 50
C17_Witness ==
    /\ RetrieveReturned
    /\ state = <<Item("price", Str("50"))>>
    /\ \E record \in Found : record["price"] = Num(50)

\* C18: the records returned are in the order of the sort directive's
\* attribute, ascending or descending as the directive says, and in
\* ascending order of price when the state has no directive, whatever the
\* size of the result.
C18_Ranking ==
    RetrieveReturned =>
        \A i, j \in DOMAIN last.found.records :
            i < j =>
                IF RankDescending
                THEN ~KeyLess(last.found.records[i][RankKey], last.found.records[j][RankKey])
                ELSE ~KeyLess(last.found.records[j][RankKey], last.found.records[i][RankKey])

\* a descending directive returned three records, the first above the last
C18_Witness ==
    /\ RetrieveReturned
    /\ RankDescending
    /\ Len(last.found.records) = 3
    /\ KeyLess(last.found.records[3][RankKey], last.found.records[1][RankKey])

\* C19: two records of the result with equal values of the rank key are in
\* the order of the catalog, for ascending and descending directives and for
\* the default order.
C19_RankingStable ==
    RetrieveReturned =>
        \A i, j \in DOMAIN last.found.records :
            (i < j /\ last.found.records[i][RankKey] = last.found.records[j][RankKey]) =>
                CatalogIndex(last.found.records[i]) < CatalogIndex(last.found.records[j])

\* a descending directive returned two records that tie on its attribute,
\* ahead of a third
C19_Witness ==
    /\ RetrieveReturned
    /\ RankDescending
    /\ Len(last.found.records) = 3
    /\ last.found.records[1][RankKey] = last.found.records[2][RankKey]
    /\ last.found.records[2][RankKey] # last.found.records[3][RankKey]

\* C20: a call of retrieve leaves the catalog and the dialog state as they
\* were, and a second call with the state unchanged returns the same records
\* in the same order.
C20_QueryReadOnly ==
    RetrieveCalled =>
        /\ last.found.data = last.data
        /\ db = last.data
        /\ state = last.upd.ret
        /\ MockedDB_retrieve(db, state).raised = last.found.raised
        /\ MockedDB_retrieve(db, state).records = last.found.records

\* retrieve returned records in another order than the catalog's
C20_Witness ==
    /\ RetrieveReturned
    /\ Len(last.found.records) >= 2
    /\ \E i, j \in DOMAIN last.found.records :
           i < j /\ CatalogIndex(last.found.records[i]) > CatalogIndex(last.found.records[j])

(* ------------------------ claims on the session ----------------------- *)

\* v is null or empty: None, "" or {}
NullOrEmpty(v) ==
    \/ v.t = "none"
    \/ v.t = "str" /\ v.s = ""
    \/ v.t = "dict" /\ DOMAIN v.f = {}

\* C23: the dialog state never holds a key whose value is null or empty,
\* because DST.update is never handed one; a turn whose answer has nothing
\* but null or empty fields merges the empty diff and leaves the state as it
\* was.
C23_NullNeverMerged ==
    /\ \A i \in DOMAIN state : ~NullOrEmpty(state[i].v)
    /\ UpdateCalled => \A i \in DOMAIN last.semantics : ~NullOrEmpty(last.semantics[i].v)
    /\ (UpdateCalled /\ last.semantics = <<>>) => (~last.upd.raised /\ state = last.pre)

\* a turn with nothing to merge in a session that has a state
C23_Witness ==
    /\ UpdateCalled
    /\ last.semantics = <<>>
    /\ state # <<>>
    /\ state = last.pre

\* C24: the history starts as the one system entry; a turn that completes
\* appends the user's input and then the reply, in this order and nothing
\* else (so not the prompt built for the generator); no other turn changes
\* the history, and no entry is changed or removed.
C24_HistoryAppendOnly ==
    /\ session = <<[role |-> "system", content |-> SYSTEM_PROMPT]>>
    /\ [][IF turn' # turn /\ last'.outcome = "replied"
          THEN \E response \in Replies :
                   session' = session \o <<[role |-> "user", content |-> Utterance(turn')],
                                            [role |-> "assistant", content |-> response]>>
          ELSE session' = session]_vars

\* two turns completed: five entries, user and assistant in turn
C24_Witness ==
    /\ last.outcome = "replied"
    /\ Len(session) = 5
    /\ [i \in 1..5 |-> session[i].role] = <<"system", "user", "assistant", "user", "assistant">>
    /\ session[2].content # session[4].content

\* C25: the state changes only in a turn that calls DST.update, and after
\* such a turn (whether it ends in retrieval, planning, generation or a
\* reply) it is the content of the dict that DST.update worked on, the one
\* it returns; retrieval, planning and generation write nothing to it.
C25_OnlyDSTWritesState ==
    [][state' = IF turn' # turn /\ last'.outcome # "extraction_fault"
                THEN DST_update(state, last'.semantics).arg
                ELSE state]_vars

\* a turn completed with a sort directive in the state it merged
C25_Witness ==
    /\ last.outcome = "replied"
    /\ Has(state, "sort")
    /\ state # last.pre
    /\ last.found.records # <<>>

\* C26: no reachable state holds a sort directive on an attribute together
\* with an equality constraint on that attribute, also when both come in
\* one diff or the equality comes after the sort directive.
C26_SortExcludesEquality ==
    ~(/\ Has(state, "sort")
      /\ Has(state, SortSlot(state))
      /\ IsEquality(Get(state, SortSlot(state))))

\* C27: a diff that DST.update has merged can be merged again at once: the
\* second merge raises nothing and returns the same mapping as the first.
C27_MergeIdempotent ==
    [][(/\ UpdateReturned
        /\ turn' # turn
        /\ last'.outcome # "extraction_fault"
        /\ last'.pre = last.upd.ret
        /\ last'.semantics = last.semantics)
          => (~last'.upd.raised /\ AsMap(last'.upd.ret) = AsMap(last.upd.ret))]_vars

(* ------------------------ claims on the planner ----------------------- *)

\* the prompt that the latest turn built after retrieval returned
Planned == DialogManager_create_prompt(state, Utterance(turn).s, last.found.records)

\* the place of a placeholder in the not-found template
NotFoundPlace(placeholder) ==
    CHOOSE i \in DOMAIN prompt_templates.not_found : prompt_templates.not_found[i] = placeholder

\* C21: the prompt is the recommend template filled with the user's input
\* and the name, price and data of the first record of the result exactly
\* when the result is not empty, and the not-found template with the user's
\* input otherwise; no other record of the result shows in it.
C21_PlannerFork ==
    RetrieveReturned =>
        IF last.found.records # <<>>
        THEN /\ ~Planned.raised
             /\ Planned.prompt =
                    <<prompt_templates.recommand[1], Utterance(turn).s,
                      prompt_templates.recommand[3], last.found.records[1]["name"].s,
                      prompt_templates.recommand[5], IntToStr(last.found.records[1]["price"].n),
                      prompt_templates.recommand[7], IntToStr(last.found.records[1]["data"].n),
                      prompt_templates.recommand[9], Guidance>>
        ELSE /\ Len(Planned.prompt) = Len(prompt_templates.not_found)
             /\ \A i \in {1, 3, 5, 7, 8} : Planned.prompt[i] = prompt_templates.not_found[i]
             /\ Planned.prompt[2] = Utterance(turn).s

\* retrieval returned three records, the first unlike the last
C21_Witness ==
    /\ RetrieveReturned
    /\ Len(last.found.records) = 3
    /\ last.found.records[1] # last.found.records[3]
    /\ Planned.prompt[4] = last.found.records[1]["name"].s

\* C22: with an empty result the planner raises nothing and returns the
\* not-found prompt, whatever the state holds (a sort directive, exact
\* values, comparative constraints); a comparative constraint on price or
\* data stands in it as its operator followed at once by its threshold.
C22_NotFoundTotal ==
    (RetrieveReturned /\ last.found.records = <<>>) =>
        /\ ~Planned.raised
        /\ Planned.prompt[3] = prompt_templates.not_found[3]
        /\ \A key \in {"price", "data"} :
               (Has(state, key) /\ IsDict(Get(state, key))) =>
                   Planned.prompt[NotFoundPlace(Placeholder(key))] =
                       Get(state, key).f["operator"].s \o PyStr(Get(state, key).f["value"])

\* nothing costs 40 or less: the state holds a sort directive and the
\* constraint, which the prompt shows as "<=40"
C22_Witness ==
    /\ RetrieveReturned
    /\ last.found.records = <<>>
    /\ Has(state, "sort")
    /\ Has(state, "price")
    /\ Get(state, "price") = Cmp("<=", Num(40))
    /\ Planned.prompt[4] = "<=40"

\* C28: with an empty result, the prompt built from the templates of main
\* has no __PRICE__ and no __DATA__ left in it, whichever of price and data
\* the state constrains.
C28_NotFoundSubstituted ==
    (RetrieveReturned /\ last.found.records = <<>>) =>
        \A i \in DOMAIN Planned.prompt : Planned.prompt[i] \notin {"__PRICE__", "__DATA__"}

(* ------------------------ claims on the audit job --------------------- *)

\* C29: at most one invocation is between setting _task_running and the
\* end of its finally block, whatever the interleaving; an invocation that
\* found _task_running set has read and written no comment.
C29_AuditMutualExclusion ==
    /\ Cardinality({i \in Invocations : pc[i] \in InBody}) <= 1
    /\ \A i \in Invocations : ended[i] = "skipped_running" => ~touched[i]

\* one invocation is auditing, with a comment done and one to do, and
\* another has returned because it found the flag set
C29_Witness ==
    \E i, j \in Invocations :
        /\ pc[i] = "audit"
        /\ \E c \in 1..MaxComments : comments[c] # 0
        /\ ended[j] = "skipped_running"
        /\ pc[j] = "done"

\* C30: an invocation that has set _task_running sets it back in the end,
\* whether its body finishes or raises, and the flag is set only while
\* such an invocation is under way: no invocation that has ended leaves it
\* set.
C30_AuditFlagReleased ==
    /\ [](task_running => \E i \in Invocations : pc[i] \in InBody)
    /\ \A i \in Invocations : (pc[i] = "query") ~> (pc[i] = "done" /\ ~task_running)

\* the body raised and the flag is back to False
C30_Witness ==
    /\ \E i \in Invocations : pc[i] = "done" /\ ended[i] = "raised" /\ touched[i]
    /\ ~task_running

====
